---- MODULE Spec2Model ----
(***************************************************************************)
(* PyNote: the "find in files" utility of src/pynote/utils.py              *)
(* (full_text_search and detect_encoding).                                 *)
(*                                                                         *)
(* A text is a sequence of characters, a character a one-element name:     *)
(*   "I"      U+0049 LATIN CAPITAL LETTER I                                *)
(*   "i"      U+0069 LATIN SMALL LETTER I                                  *)
(*   "U0130"  LATIN CAPITAL LETTER I WITH DOT ABOVE; str.lower() turns it  *)
(*            into the two characters "i" U+0307                           *)
(*   "U0307"  COMBINING DOT ABOVE                                          *)
(*   "("      an opening parenthesis: a literal for str.find, an           *)
(*            unterminated group for re.compile                            *)
(* A file system is a root that exists or not and the entries below it in  *)
(* the order Path.rglob('*') enumerates them.  An entry's lines are the    *)
(* text its final open(..., errors='replace') yields, one element per      *)
(* line, terminators already split off by the file iterator.  Whether an   *)
(* access to a file succeeds is decided by the environment at the moment   *)
(* of the access (permissions change, files are deleted between calls).    *)
(*                                                                         *)
(* In utils.py the def of full_text_search is indented under               *)
(* detect_encoding, after its return statements.  The model takes the body *)
(* of that def as the function full_text_search that ui.py calls.          *)
(*                                                                         *)
(* The editor of src/pynote/main.py (PyNoteApp) is a second state machine: *)
(* the buffer of the text widget, its modified flag, the file path, and    *)
(* the files on disk, with one action per command.  The answer to the      *)
(* 'Unsaved changes' prompt, the file dialogs and the outcome of a write   *)
(* are chosen by the environment.                                          *)
(***************************************************************************)
EXTENDS Integers, Sequences, FiniteSets, TLC

\* ------------------------------------------------------------------ bounds
MaxLineLen == 2
MaxPatLen == 2
MaxTextLines == 2
MaxLines == 3
MaxFiles == 2
MaxCtx == 2

\* ------------------------------------------------------------- text values
TextChars == {"I", "i", "U0130", "U0307"}
PatChars == TextChars \cup {"("}

Strings(chars, n) == UNION {[1..k -> chars] : k \in 0..n}

SeqsUpTo(S, n) == UNION {[1..k -> S] : k \in 0..n}

Min(a, b) == IF a < b THEN a ELSE b

Max(a, b) == IF a > b THEN a ELSE b

\* str.lower() of one character (the full Unicode lower-case mapping).
LowerChar(c) ==
    CASE c = "I" -> <<"i">>
      [] c = "U0130" -> <<"i", "U0307">>
      [] OTHER -> <<c>>

\* str.lower(): the concatenation of the characters' mappings.
RECURSIVE StrLower(_)
StrLower(s) == IF s = <<>> THEN <<>> ELSE LowerChar(Head(s)) \o StrLower(Tail(s))

\* s[a:b] of a Python sequence, for a, b >= 0 (0-based, end exclusive,
\* clipped to the length).
Slice(s, a, b) ==
    LET e == Min(b, Len(s))
    IN  IF a >= e THEN <<>> ELSE [j \in 1..(e - a) |-> s[a + j]]

\* needle occurs in hay at 0-based offset j.
OccursAt(hay, needle, j) ==
    /\ j + Len(needle) <= Len(hay)
    /\ \A k \in 1..Len(needle) : hay[j + k] = needle[k]

\* Find with an empty haystack taken for "not found".
FindMut(hay, needle) ==
    LET hits == {j \in 0..Len(hay) : OccursAt(hay, needle, j)}
    IN  IF hits = {} \/ hay = <<>> THEN -1
        ELSE CHOOSE j \in hits : \A h \in hits : j <= h

\* str.find(): the lowest offset of an occurrence, -1 when there is none.
Find(hay, needle) ==
    LET hits == {j \in 0..Len(hay) : OccursAt(hay, needle, j)}
    IN  IF hits = {} THEN -1 ELSE CHOOSE j \in hits : \A h \in hits : j <= h

\* ------------------------------------------------------------------- regex
\* re.compile(pattern, flags) over PatChars: every character but "(" is a
\* literal, and "(" opens a group that nothing closes: re.error.
RegexValid(pattern) == \A k \in 1..Len(pattern) : pattern[k] # "("

\* The simple lower-case mapping re.IGNORECASE compares with (one character
\* to one character: U+0130 goes to "i").
SreLower(c) == IF c \in {"I", "U0130"} THEN "i" ELSE c

RegexCharEq(pc, tc, ignore_case) ==
    IF ignore_case THEN SreLower(pc) = SreLower(tc) ELSE pc = tc

RegexMatchAt(pattern, line, j, ignore_case) ==
    /\ j + Len(pattern) <= Len(line)
    /\ \A k \in 1..Len(pattern) : RegexCharEq(pattern[k], line[j + k], ignore_case)

\* matcher.search(line): the offset of the leftmost match, -1 for None.
RegexSearch(pattern, line, ignore_case) ==
    LET hits == {j \in 0..Len(line) : RegexMatchAt(pattern, line, j, ignore_case)}
    IN  IF hits = {} THEN -1 ELSE CHOOSE j \in hits : \A h \in hits : j <= h

\* ------------------------------------------------------------ line matcher
NoMatch == [start |-> -1, matched |-> <<>>]

\* The body of the loop over the lines, up to the match: the start offset
\* and the matched text, NoMatch where the code says continue.
MatchLine(line, pattern, regex, ignore_case) ==
    IF regex
    THEN LET s == RegexSearch(pattern, line, ignore_case)
         IN  IF s = -1 THEN NoMatch
             ELSE [start |-> s, matched |-> Slice(line, s, s + Len(pattern))]
    ELSE LET hay == IF ignore_case THEN StrLower(line) ELSE line
             needle == IF ignore_case THEN StrLower(pattern) ELSE pattern
             idx == Find(hay, needle)
         IN  IF idx = -1 THEN NoMatch
             ELSE [start |-> idx, matched |-> Slice(line, idx, idx + Len(pattern))]

\* ------------------------------------------------------- context extractor
\* PreContext with the window starting one line late.
PreContextMut(lines, i, context_lines) ==
    Slice(lines, Max(0, i - context_lines), i - 1)

PreContext(lines, i, context_lines) ==
    Slice(lines, Max(0, i - 1 - context_lines), i - 1)

PostContext(lines, i, context_lines) ==
    Slice(lines, i, Min(Len(lines), i + context_lines))

\* The record appended for a match on line i (1-based) of file p.
MatchRecord(p, lines, i, m, context_lines) ==
    [path |-> p, line_no |-> i, line |-> lines[i], match |-> m.matched,
     pre_context |-> PreContext(lines, i, context_lines),
     post_context |-> PostContext(lines, i, context_lines)]

\* ScanLines with each record put in front of the list instead of appended.
RECURSIVE ScanLinesMut(_, _, _, _)
ScanLinesMut(p, lines, i, a) ==
    IF i > Len(lines) THEN <<>>
    ELSE LET m == MatchLine(lines[i], a.pattern, a.regex, a.ignore_case)
         IN  ScanLinesMut(p, lines, i + 1, a)
             \o (IF m.start = -1 THEN <<>>
                 ELSE <<MatchRecord(p, lines, i, m, a.context_lines)>>)

\* for i, line in enumerate(lines, start=1): the records of lines i..n.
RECURSIVE ScanLines(_, _, _, _)
ScanLines(p, lines, i, a) ==
    IF i > Len(lines) THEN <<>>
    ELSE LET m == MatchLine(lines[i], a.pattern, a.regex, a.ignore_case)
         IN  (IF m.start = -1 THEN <<>>
              ELSE <<MatchRecord(p, lines, i, m, a.context_lines)>>)
             \o ScanLines(p, lines, i + 1, a)

\* -------------------------------------------------------------- the walker
\* file_extensions: None, or the collection given (what the code asks of it
\* is membership only).
None == [given |-> FALSE, members |-> {}]

Extensions(S) == [given |-> TRUE, members |-> S]

Suffixes == {".py", ".PY"}

\* root.rglob('*') or root.glob('*'): the entries' indices in enumeration
\* order, the direct children only when not recursive.
RECURSIVE WalkFrom(_, _, _)
WalkFrom(entries, k, recursive) ==
    IF k > Len(entries) THEN <<>>
    ELSE (IF recursive \/ ~entries[k].nested THEN <<k>> ELSE <<>>)
         \o WalkFrom(entries, k + 1, recursive)

Walk(entries, recursive) == WalkFrom(entries, 1, recursive)

\* Skipped with an empty collection taken for no filter.
SkippedMut(entry, file_extensions) ==
    \/ entry.kind # "file"
    \/ /\ file_extensions # None
       /\ file_extensions.members # {}
       /\ entry.suffix \notin file_extensions.members

\* The two tests at the head of the loop body.
Skipped(entry, file_extensions) ==
    \/ entry.kind # "file"
    \/ (file_extensions # None /\ entry.suffix \notin file_extensions.members)

VARIABLES fs, args, pc, iter, cur, enc, det, results, exc, oplog

\* The editor of main.py: the text widget's content and modified flag,
\* self._filepath, the files the dialogs can name, and the latest command.
VARIABLES text, modified, filepath, disk, last

searchVars == <<fs, args, pc, iter, cur, enc, results, exc, oplog>>

edVars == <<text, modified, filepath, disk, last>>

vars == <<fs, args, pc, iter, cur, enc, det, results, exc, oplog,
          text, modified, filepath, disk, last>>

\* ------------------------------------------------------------ detect_encoding
\* det is the latest call of detect_encoding: the file, how its two read
\* attempts ended and what the call gave back ("raise": an exception left it).
NoDet == [path |-> 0, first |-> "none", second |-> "none", ret |-> "none"]

\* try: open(filepath, 'r', encoding='utf-8'), f.read(), return 'utf-8';
\* except UnicodeDecodeError: go on to the second attempt.
DetectFirst(p, o) ==
    [path |-> p, first |-> o, second |-> "none",
     ret |-> CASE o = "ok" -> "utf-8"
               [] o = "decode_error" -> "none"
               [] OTHER -> "raise"]

\* try: open(filepath, 'r', encoding='latin-1'), f.read(), return 'latin-1';
\* except Exception: return 'utf-8'.
DetectSecond(d, o) ==
    [d EXCEPT !.second = o, !.ret = IF o = "ok" THEN "latin-1" ELSE "utf-8"]

\* ------------------------------------------------------------ full_text_search
Log(op, p, e, o) == Append(oplog, [op |-> op, path |-> p, enc |-> e, outcome |-> o])

\* CheckRoot with the pattern compiled before the existence test.
CheckRootMut ==
    /\ pc = "start"
    /\ IF args.regex /\ ~RegexValid(args.pattern)
       THEN /\ pc' = "raised"
            /\ exc' = "re.error"
            /\ oplog' = Log("compile", 0, "none", "error")
       ELSE /\ oplog' = Log("exists", 0, "none",
                            IF fs.rootExists THEN "ok" ELSE "missing")
            /\ IF fs.rootExists
               THEN pc' = "compile" /\ exc' = exc
               ELSE pc' = "raised" /\ exc' = "FileNotFoundError"
    /\ UNCHANGED <<fs, args, iter, cur, enc, det, results>>
    /\ UNCHANGED edVars

\* root = Path(root_path); if not root.exists(): raise FileNotFoundError
CheckRoot ==
    /\ pc = "start"
    /\ oplog' = Log("exists", 0, "none", IF fs.rootExists THEN "ok" ELSE "missing")
    /\ IF fs.rootExists
       THEN pc' = "compile" /\ exc' = exc
       ELSE pc' = "raised" /\ exc' = "FileNotFoundError"
    /\ UNCHANGED <<fs, args, iter, cur, enc, det, results>>
    /\ UNCHANGED edVars

\* Compile with the directory enumerated before the pattern is compiled.
CompileMut ==
    /\ pc = "compile"
    /\ oplog' = IF args.regex
                THEN Append(Log("next", 0, "none", "ok"),
                            [op |-> "compile", path |-> 0, enc |-> "none",
                             outcome |-> IF RegexValid(args.pattern)
                                         THEN "ok" ELSE "error"])
                ELSE oplog
    /\ IF args.regex /\ ~RegexValid(args.pattern)
       THEN pc' = "raised" /\ exc' = "re.error" /\ UNCHANGED <<iter, results>>
       ELSE /\ pc' = "walk"
            /\ exc' = exc
            /\ results' = <<>>
            /\ iter' = Walk(fs.entries, args.recursive)
    /\ UNCHANGED <<fs, args, cur, enc, det>>
    /\ UNCHANGED edVars

\* matcher = re.compile(pattern, flags) if regex else None; results = [];
\* iterator = root.rglob('*') if recursive else root.glob('*')
Compile ==
    /\ pc = "compile"
    /\ oplog' = IF args.regex
                THEN Log("compile", 0, "none",
                         IF RegexValid(args.pattern) THEN "ok" ELSE "error")
                ELSE oplog
    /\ IF args.regex /\ ~RegexValid(args.pattern)
       THEN pc' = "raised" /\ exc' = "re.error" /\ UNCHANGED <<iter, results>>
       ELSE /\ pc' = "walk"
            /\ exc' = exc
            /\ results' = <<>>
            /\ iter' = Walk(fs.entries, args.recursive)
    /\ UNCHANGED <<fs, args, cur, enc, det>>
    /\ UNCHANGED edVars

\* for p in iterator: the is_file and suffix tests; return results when the
\* iterator is exhausted.
WalkNext ==
    /\ pc = "walk"
    /\ IF iter = <<>>
       THEN /\ pc' = "done"
            /\ oplog' = Log("next", 0, "none", "exhausted")
            /\ UNCHANGED <<iter, cur>>
       ELSE LET p == Head(iter)
            IN  /\ iter' = Tail(iter)
                /\ cur' = p
                /\ oplog' = Log("next", p, "none", "ok")
                /\ pc' = IF Skipped(fs.entries[p], args.file_extensions)
                         THEN "walk" ELSE "detect1"
    /\ UNCHANGED <<fs, args, enc, det, results, exc>>
    /\ UNCHANGED edVars

\* detect_encoding, the first attempt: open and read the file as UTF-8.  A
\* UnicodeDecodeError goes on to the Latin-1 attempt; any other error is not
\* caught there and leaves detect_encoding, and the search skips the file.
DetectUtf8 ==
    /\ pc = "detect1"
    /\ \E o \in {"ok", "decode_error", "os_error"} :
         /\ oplog' = Log("detect_open", cur, "utf-8", o)
         /\ det' = DetectFirst(cur, o)
         /\ enc' = IF o = "ok" THEN "utf-8" ELSE enc
         /\ pc' = CASE o = "ok" -> "read"
                    [] o = "decode_error" -> "detect2"
                    [] OTHER -> "walk"
    /\ UNCHANGED <<fs, args, iter, cur, results, exc>>
    /\ UNCHANGED edVars

\* detect_encoding, the fallback: open and read the file as Latin-1, and
\* return 'utf-8' when that raises.
DetectLatin1 ==
    /\ pc = "detect2"
    /\ \E o \in {"ok", "os_error"} :
         /\ oplog' = Log("detect_open", cur, "latin-1", o)
         /\ det' = DetectSecond(det, o)
         /\ enc' = DetectSecond(det, o).ret
         /\ pc' = "read"
    /\ UNCHANGED <<fs, args, iter, cur, results, exc>>
    /\ UNCHANGED edVars

\* ReadAndScan without the except clause: the error leaves the search.
ReadAndScanMut ==
    /\ pc = "read"
    /\ \E o \in {"ok", "os_error"} :
         /\ oplog' = Log("open", cur, enc, o)
         /\ results' = IF o = "ok"
                       THEN results \o ScanLines(cur, fs.entries[cur].lines, 1, args)
                       ELSE results
         /\ pc' = IF o = "ok" THEN "walk" ELSE "raised"
         /\ exc' = IF o = "ok" THEN exc ELSE "OSError"
    /\ UNCHANGED <<fs, args, iter, cur, enc, det>>
    /\ UNCHANGED edVars

\* with open(p, 'r', encoding=enc, errors='replace') as f: the lines, the
\* loop over them and the appends; except Exception: continue.
ReadAndScan ==
    /\ pc = "read"
    /\ \E o \in {"ok", "os_error"} :
         /\ oplog' = Log("open", cur, enc, o)
         /\ results' = IF o = "ok"
                       THEN results \o ScanLines(cur, fs.entries[cur].lines, 1, args)
                       ELSE results
    /\ pc' = "walk"
    /\ UNCHANGED <<fs, args, iter, cur, enc, det, exc>>
    /\ UNCHANGED edVars

Next == CheckRoot \/ Compile \/ WalkNext \/ DetectUtf8 \/ DetectLatin1 \/ ReadAndScan

\* ------------------------------------------------------------------ the editor
\* (In main.py open_search and open_file_at are indented under
\* _update_status; the model takes their bodies as the methods ui.py calls.)
NumPaths == 2
MaxDocLen == 2

Paths == 1..NumPaths

\* self._filepath = None, and the empty string a cancelled dialog returns.
NoPath == 0

DocChars == {"a", "nl"}

Docs == Strings(DocChars, MaxDocLen)

\* What the user can type into the widget.
TypedDocs == {<<>>, <<"a">>}

Missing == [exists |-> FALSE, data |-> <<>>]

OnDisk(data) == [exists |-> TRUE, data |-> data]

\* self.text.get('1.0', tk.END): the content and the newline the widget
\* keeps at its end.
TextGet(t) == Append(t, "nl")

\* The editor's state as the methods see it.
EdState == [text |-> text, modified |-> modified, filepath |-> filepath, disk |-> disk]

\* with open(path, 'w', encoding='utf-8') as f: f.write(self.text.get(...))
\* and what follows it in save_file and save_as.  w is how the write ends:
\* "ok"; "error", open raised and the file is as it was; "error_truncated",
\* open emptied the file and the write raised.  The except clause shows a
\* message and leaves the editor as it is.
WriteBuffer(st, p, w) ==
    CASE w = "ok" ->
           [st |-> [st EXCEPT !.disk[p] = OnDisk(TextGet(st.text)),
                              !.filepath = p,
                              !.modified = FALSE],
            saved |-> TRUE]
      [] w = "error_truncated" ->
           [st |-> [st EXCEPT !.disk[p] = OnDisk(<<>>)], saved |-> FALSE]
      [] OTHER -> [st |-> st, saved |-> FALSE]

\* save_as: dlg is the path asksaveasfilename returns, NoPath when cancelled.
SaveAs(st, dlg, w) ==
    IF dlg # NoPath THEN WriteBuffer(st, dlg, w) ELSE [st |-> st, saved |-> FALSE]

\* save_file: to self._filepath when there is one, by save_as otherwise.
SaveFile(st, dlg, w) ==
    IF st.filepath # NoPath THEN WriteBuffer(st, st.filepath, w) ELSE SaveAs(st, dlg, w)

\* _confirm_discard: no prompt when the widget is not modified; Cancel (None)
\* returns False; Yes calls save_file and, whatever became of the save,
\* returns True like No.
ConfirmDiscard(st, answer, dlg, w) ==
    IF ~st.modified
    THEN [st |-> st, proceed |-> TRUE, answer |-> "none", saved |-> FALSE]
    ELSE CASE answer = "cancel" ->
                [st |-> st, proceed |-> FALSE, answer |-> answer, saved |-> FALSE]
           [] answer = "yes" ->
                LET sv == SaveFile(st, dlg, w)
                IN  [st |-> sv.st, proceed |-> TRUE, answer |-> answer,
                     saved |-> sv.saved]
           [] OTHER ->
                [st |-> st, proceed |-> TRUE, answer |-> answer, saved |-> FALSE]

\* self.text.delete('1.0', tk.END) and self.text.insert('1.0', data): the
\* widget sets its modified flag when characters are removed or inserted.
Replace(st, data) ==
    [st EXCEPT !.text = data,
               !.modified = st.modified \/ st.text # <<>> \/ data # <<>>]

Answers == {"yes", "no", "cancel"}

WriteOutcomes == {"ok", "error", "error_truncated"}

\* Every way _confirm_discard can end: over the user's answer, the path the
\* Save As dialog returns and the way the write ends.
Confirms(st) ==
    {ConfirmDiscard(st, answer, dlg, w) :
        answer \in Answers, dlg \in Paths \cup {NoPath}, w \in WriteOutcomes}

\* Every way detect_encoding(path) can end; a missing file fails the first
\* attempt.
Detections(path) ==
    {DetectFirst(path, "os_error")}
    \cup (IF disk[path].exists
          THEN {DetectFirst(path, "ok")}
               \cup {DetectSecond(DetectFirst(path, "decode_error"), o2) :
                        o2 \in {"ok", "os_error"}}
          ELSE {})

\* The text a write would put on disk fits the bound on file contents.
Fits == Len(text) < MaxDocLen

NoCommand ==
    [op |-> "none", modified |-> FALSE, answer |-> "none", saved |-> FALSE,
     replaced |-> FALSE, text |-> <<>>, path |-> NoPath]

\* The command, the state it found and what its prompt and its save did.
Command(op, c, replaced) ==
    [op |-> op, modified |-> modified, answer |-> c.answer, saved |-> c.saved,
     replaced |-> replaced, text |-> text, path |-> filepath]

Adopt(st) ==
    /\ text' = st.text
    /\ modified' = st.modified
    /\ filepath' = st.filepath
    /\ disk' = st.disk

\* The user types: the widget's content changes and its modified flag is set.
edit ==
    /\ \E t \in TypedDocs \ {text} :
         /\ text' = t
         /\ modified' = TRUE
    /\ last' = [NoCommand EXCEPT !.op = "edit"]
    /\ UNCHANGED <<filepath, disk, det>>
    /\ UNCHANGED searchVars

new_file ==
    /\ Fits
    /\ \E c \in Confirms(EdState) :
         IF c.proceed
         THEN /\ Adopt([Replace(c.st, <<>>) EXCEPT !.filepath = NoPath])
              /\ last' = Command("new_file", c, TRUE)
         ELSE /\ Adopt(c.st)
              /\ last' = Command("new_file", c, FALSE)
    /\ UNCHANGED det
    /\ UNCHANGED searchVars

\* pick is the path askopenfilename returns (NoPath when cancelled) and r how
\* the strict UTF-8 read of it ends.
open_file ==
    /\ Fits
    /\ \E c \in Confirms(EdState) :
       \E pick \in Paths \cup {NoPath} : \E r \in {"ok", "error"} :
         LET loads == /\ c.proceed
                      /\ pick # NoPath
                      /\ r = "ok"
                      /\ c.st.disk[pick].exists
         IN  IF loads
             THEN /\ Adopt([Replace(c.st, c.st.disk[pick].data) EXCEPT !.filepath = pick])
                  /\ last' = Command("open_file", c, TRUE)
             ELSE /\ Adopt(c.st)
                  /\ last' = Command("open_file", c, FALSE)
    /\ UNCHANGED det
    /\ UNCHANGED searchVars

NoConfirm == [answer |-> "none", saved |-> FALSE]

\* open_file_at(path, line_no): detect_encoding and the read come first (an
\* exception of either shows a message and ends the method), the prompt
\* after them, and the text read before the prompt replaces the buffer.
open_file_at ==
    /\ Fits
    /\ \E path \in Paths : \E d \in Detections(path) : \E r \in {"ok", "os_error"} :
         /\ det' = d
         /\ IF d.ret = "raise" \/ r # "ok" \/ ~disk[path].exists
            THEN /\ UNCHANGED <<text, modified, filepath, disk>>
                 /\ last' = Command("open_file_at", NoConfirm, FALSE)
            ELSE \E c \in Confirms(EdState) :
                   IF c.proceed
                   THEN /\ Adopt([Replace(c.st, disk[path].data)
                                     EXCEPT !.filepath = path])
                        /\ last' = Command("open_file_at", c, TRUE)
                   ELSE /\ Adopt(c.st)
                        /\ last' = Command("open_file_at", c, FALSE)
    /\ UNCHANGED searchVars

save_file ==
    /\ Fits
    /\ \E dlg \in Paths \cup {NoPath} : \E w \in WriteOutcomes :
         LET sv == SaveFile(EdState, dlg, w)
         IN  /\ Adopt(sv.st)
             /\ last' = Command("save_file", [answer |-> "none", saved |-> sv.saved], FALSE)
    /\ UNCHANGED det
    /\ UNCHANGED searchVars

save_as ==
    /\ Fits
    /\ \E dlg \in Paths \cup {NoPath} : \E w \in WriteOutcomes :
         LET sv == SaveAs(EdState, dlg, w)
         IN  /\ Adopt(sv.st)
             /\ last' = Command("save_as", [answer |-> "none", saved |-> sv.saved], FALSE)
    /\ UNCHANGED det
    /\ UNCHANGED searchVars

NextEditor == edit \/ new_file \/ open_file \/ open_file_at \/ save_file \/ save_as

\* PyNoteApp.__init__: an empty, unmodified widget and no file path.
EditorStart ==
    /\ text = <<>>
    /\ modified = FALSE
    /\ filepath = NoPath
    /\ last = NoCommand

DiskValues == {Missing} \cup {OnDisk(d) : d \in Docs}

\* ------------------------------------------------------------ initial states
DefaultContext == 1

FileEntry(suffix, nested, lines) ==
    [kind |-> "file", suffix |-> suffix, nested |-> nested, lines |-> lines]

DirEntry(suffix, nested) ==
    [kind |-> "dir", suffix |-> suffix, nested |-> nested, lines |-> <<>>]

Root(entries) == [rootExists |-> TRUE, entries |-> entries]

NoRoot == [rootExists |-> FALSE, entries |-> <<>>]

Args(p, r, c, x, rec, w) ==
    [pattern |-> p, regex |-> r, ignore_case |-> c, file_extensions |-> x,
     recursive |-> rec, context_lines |-> w]

InitWith(fsSet, argSet) ==
    /\ fs \in fsSet
    /\ args \in argSet
    /\ pc = "start"
    /\ iter = <<>>
    /\ cur = 0
    /\ enc = "none"
    /\ det = NoDet
    /\ results = <<>>
    /\ exc = "none"
    /\ oplog = <<>>
    /\ EditorStart
    /\ disk = [p \in Paths |-> Missing]

ExtensionFilters == {None, Extensions({}), Extensions({".py"})}

\* One file of text, every pattern, both modes.
TextFs ==
    {Root(<<FileEntry(".py", FALSE, ls)>>) :
        ls \in SeqsUpTo(Strings(TextChars, MaxLineLen), MaxTextLines)}

TextArgs ==
    {Args(p, r, c, None, TRUE, DefaultContext) :
        p \in Strings(PatChars, MaxPatLen), r \in BOOLEAN, c \in BOOLEAN}

InitText == InitWith(TextFs, TextArgs)

SpecText == InitText /\ [][Next]_vars

\* One longer file, every context width and filter; and the missing root.
CtxLines == {<<>>, <<"i">>, <<"I">>}

CtxFs ==
    {Root(<<FileEntry(".py", FALSE, ls)>>) : ls \in SeqsUpTo(CtxLines, MaxLines)}
    \cup {NoRoot}

CtxArgs ==
    {Args(p, r, c, x, rec, w) :
        p \in {<<>>, <<"i">>, <<"(">>}, r \in BOOLEAN, c \in BOOLEAN,
        x \in ExtensionFilters, rec \in BOOLEAN, w \in 0..MaxCtx}

InitCtx == InitWith(CtxFs, CtxArgs)

SpecCtx == InitCtx /\ [][Next]_vars

\* A tree of files and directories, every extension filter.
TreeContents == {<< <<"i">> >>, << <<"I">>, <<"i">> >>}

TreeEntries ==
    {FileEntry(s, n, ls) : s \in Suffixes, n \in BOOLEAN, ls \in TreeContents}
    \cup {DirEntry(".py", FALSE)}

TreeFs == {Root(es) : es \in SeqsUpTo(TreeEntries, MaxFiles)}

TreeArgs ==
    {Args(<<"i">>, FALSE, c, x, rec, DefaultContext) :
        c \in BOOLEAN, x \in ExtensionFilters, rec \in BOOLEAN}

Init == InitWith(TreeFs, TreeArgs)

Spec == Init /\ [][Next]_vars

\* The editor over every content of the files, no search running.
InitEditor ==
    /\ fs = NoRoot
    /\ args = Args(<<>>, FALSE, TRUE, None, TRUE, DefaultContext)
    /\ pc = "idle"
    /\ iter = <<>>
    /\ cur = 0
    /\ enc = "none"
    /\ det = NoDet
    /\ results = <<>>
    /\ exc = "none"
    /\ oplog = <<>>
    /\ EditorStart
    /\ disk \in [Paths -> DiskValues]

SpecEditor == InitEditor /\ [][NextEditor]_vars

\* ------------------------------------------------------------------ properties
Files == 1..Len(fs.entries)

LinesOf(p) == fs.entries[p].lines

Recs == 1..Len(results)

Returned == pc = "done"

\* The search opened file p and read it to the end.
ReadOk(p) ==
    \E k \in 1..Len(oplog) :
        oplog[k].op = "open" /\ oplog[k].path = p /\ oplog[k].outcome = "ok"

\* An error ended the handling of file p.
ReadFailed(p) ==
    \E k \in 1..Len(oplog) :
        /\ oplog[k].path = p
        /\ oplog[k].outcome = "os_error"
        /\ \/ oplog[k].op = "open"
           \/ oplog[k].op = "detect_open" /\ oplog[k].enc = "utf-8"

HasRecord(p, i) == \E r \in Recs : results[r].path = p /\ results[r].line_no = i

Fold(s, ignore_case) == IF ignore_case THEN StrLower(s) ELSE s

\* The n characters of s from 0-based offset j on.
Substr(s, j, n) == [k \in 1..n |-> s[j + k]]

\* Some substring of the line is the pattern, up to case when ignore_case.
ContainsPattern(line, pattern, ignore_case) ==
    \E j \in 0..Len(line) : \E n \in 0..(Len(line) - j) :
        Fold(Substr(line, j, n), ignore_case) = Fold(pattern, ignore_case)

\* m is a substring of the line and it is the pattern, up to case when
\* ignore_case.
IsMatchOf(m, line, pattern, ignore_case) ==
    /\ \E j \in 0..Len(line) : OccursAt(line, m, j)
    /\ Fold(m, ignore_case) = Fold(pattern, ignore_case)

\* C1: in substring mode, every line of a file that was read and that
\* contains the pattern has a record with its 1-based line number, the line
\* itself and, as match, the substring of the line that matched the pattern;
\* a line that does not contain the pattern has no record.
C1_SubstringRecords ==
    (Returned /\ ~args.regex) =>
        \A p \in Files : ReadOk(p) =>
            \A i \in 1..Len(LinesOf(p)) :
                IF ContainsPattern(LinesOf(p)[i], args.pattern, args.ignore_case)
                THEN \E r \in Recs :
                        /\ results[r].path = p
                        /\ results[r].line_no = i
                        /\ results[r].line = LinesOf(p)[i]
                        /\ IsMatchOf(results[r].match, LinesOf(p)[i],
                                     args.pattern, args.ignore_case)
                ELSE ~HasRecord(p, i)

\* C2: in substring mode with ignore_case, a line that contains the pattern
\* under any casing has a record, and every record's match is a substring of
\* the original line, as long as the pattern, that equals the pattern when
\* both are lower-cased.
C2_IgnoreCaseMatch ==
    (Returned /\ ~args.regex /\ args.ignore_case) =>
        /\ \A p \in Files : ReadOk(p) =>
              \A i \in 1..Len(LinesOf(p)) :
                  ContainsPattern(LinesOf(p)[i], args.pattern, TRUE) => HasRecord(p, i)
        /\ \A r \in Recs :
              /\ \E j \in 0..Len(results[r].line) :
                    OccursAt(results[r].line, results[r].match, j)
              /\ Len(results[r].match) = Len(args.pattern)
              /\ StrLower(results[r].match) = StrLower(args.pattern)

\* Case-sensitive substring search does what C1 says (the part of C1 that the
\* lower-casing does not touch).
CaseSensitiveRecords == args.ignore_case \/ C1_SubstringRecords

\* C3: a record's pre_context is the file's lines at the 0-based indices
\* [max(0, k-w), k) and its post_context the lines at (k, min(n, k+w+1)),
\* k the 0-based index of the matched line, n the number of lines and w the
\* context width: min(w, k) and min(w, n-k-1) lines, never padded.
C3_ContextWindow ==
    \A r \in Recs :
        LET rec == results[r]
            lines == LinesOf(rec.path)
            k == rec.line_no - 1
            n == Len(lines)
            w == args.context_lines
            npre == Min(w, k)
            npost == Min(w, n - k - 1)
        IN  /\ Len(rec.pre_context) = npre
            /\ Len(rec.post_context) = npost
            /\ \A j \in 1..npre : rec.pre_context[j] = lines[k - npre + j]
            /\ \A j \in 1..npost : rec.post_context[j] = lines[k + 1 + j]

\* A match on the middle line of a three-line file with width 2: both
\* windows are cut at the file's ends.
C3_Witness ==
    /\ Returned
    /\ args.context_lines = 2
    /\ \E r \in Recs :
          /\ results[r].line_no = 2
          /\ Len(LinesOf(results[r].path)) = 3
          /\ Len(results[r].pre_context) = 1
          /\ Len(results[r].post_context) = 1

\* The lines of file p the line matcher accepts.
MatchingLines(p) ==
    {i \in 1..Len(LinesOf(p)) :
        MatchLine(LinesOf(p)[i], args.pattern, args.regex, args.ignore_case).start # -1}

\* File p contributes all of its matches.
Contributes(p) == \A i \in MatchingLines(p) : HasRecord(p, i)

\* C4: an error while detecting the encoding of a file, opening or reading
\* it never leaves full_text_search: no exception is raised, the call goes
\* on to return, the failing file has no record and every file that was read
\* has all of its matches in the result.
C4_FileErrorsSkipped ==
    /\ (\E k \in 1..Len(oplog) : oplog[k].outcome \in {"os_error", "decode_error"})
          => (exc = "none" /\ pc # "raised")
    /\ Returned =>
          \A p \in Files :
              /\ ReadFailed(p) => \A r \in Recs : results[r].path # p
              /\ ReadOk(p) => Contributes(p)

\* The first file could not be read, a later one could and has a record.
C4_Witness ==
    /\ Returned
    /\ \E p \in Files : \E q \in Files :
          /\ p < q
          /\ ReadFailed(p)
          /\ ReadOk(q)
          /\ \E r \in Recs : results[r].path = q

\* Over PatChars a pattern is not a regular expression when it has a "(".
HasUnclosedGroup(pattern) == \E k \in 1..Len(pattern) : pattern[k] = "("

LogOps == {oplog[k].op : k \in 1..Len(oplog)}

\* C5: in regex mode an invalid pattern under an existing root raises the
\* pattern error once, before the directory is enumerated and any file is
\* opened, and no result is returned; in substring mode the pattern is never
\* compiled and no pattern error occurs.
C5_PatternErrorFirst ==
    /\ exc = "re.error" =>
          /\ pc = "raised"
          /\ args.regex
          /\ results = <<>>
          /\ LogOps \cap {"next", "detect_open", "open"} = {}
          /\ Cardinality({k \in 1..Len(oplog) : oplog[k].op = "compile"}) = 1
    /\ (args.regex /\ HasUnclosedGroup(args.pattern) /\ fs.rootExists) =>
          /\ pc \in {"start", "compile", "raised"}
          /\ pc = "raised" => exc = "re.error"
    /\ ~args.regex => (exc # "re.error" /\ "compile" \notin LogOps)

\* The pattern error was raised.
C5_Witness ==
    /\ pc = "raised"
    /\ exc = "re.error"
    /\ fs.rootExists
    /\ HasUnclosedGroup(args.pattern)

\* C6: when the root does not exist the call raises the not-found error right
\* after the existence test, whatever the other parameters are (an invalid
\* regex included): nothing is enumerated, opened, read or returned.
C6_MissingRoot ==
    /\ ~fs.rootExists =>
          /\ pc \in {"start", "raised"}
          /\ exc \in {"none", "FileNotFoundError"}
          /\ results = <<>>
          /\ LogOps \subseteq {"exists"}
          /\ pc = "raised" => (exc = "FileNotFoundError" /\ Len(oplog) = 1)
    /\ exc = "FileNotFoundError" => (~fs.rootExists /\ pc = "raised")

\* The not-found error was raised for a call in regex mode with an invalid
\* pattern.
C6_Witness ==
    /\ pc = "raised"
    /\ exc = "FileNotFoundError"
    /\ args.regex
    /\ HasUnclosedGroup(args.pattern)

\* The iterator yielded entry p.
Yielded(p) ==
    \E k \in 1..Len(oplog) : oplog[k].op = "next" /\ oplog[k].path = p

\* A regular file the walker yielded and no error kept from being read.
Candidate(p) == fs.entries[p].kind = "file" /\ Yielded(p) /\ ~ReadFailed(p)

RecordsWithin(S) ==
    \A r \in Recs :
        /\ fs.entries[results[r].path].kind = "file"
        /\ fs.entries[results[r].path].suffix \in S

\* C7: with a non-empty file_extensions only regular files whose suffix is a
\* member contribute records; with file_extensions None or empty every
\* regular file contributes its matches.
C7_ExtensionFilter ==
    Returned =>
        LET x == args.file_extensions
        IN  /\ (x.given /\ x.members # {}) => RecordsWithin(x.members)
            /\ (~x.given \/ x.members = {}) =>
                  \A p \in Files : Candidate(p) => Contributes(p)

\* C7 as amended: with file_extensions given, only regular files whose suffix
\* is a member contribute, and such files contribute their matches, so that
\* an empty collection leaves the result empty; with file_extensions None
\* every regular file the walker yields contributes its matches.
C7_ExtensionFilterAmended ==
    Returned =>
        LET x == args.file_extensions
        IN  /\ x.given => RecordsWithin(x.members)
            /\ x.given =>
                  \A p \in Files :
                      (Candidate(p) /\ fs.entries[p].suffix \in x.members)
                          => Contributes(p)
            /\ (x.given /\ x.members = {}) => results = <<>>
            /\ ~x.given => \A p \in Files : Candidate(p) => Contributes(p)

\* An empty collection was given, a regular file with a matching line was
\* yielded, and the result is empty.
C7_Witness ==
    /\ Returned
    /\ args.file_extensions = Extensions({})
    /\ \E p \in Files : Candidate(p) /\ MatchingLines(p) # {}
    /\ results = <<>>

\* The position in the enumeration at which the iterator yielded entry p.
YieldPos(p) ==
    CHOOSE k \in 1..Len(oplog) : oplog[k].op = "next" /\ oplog[k].path = p

\* C8: of two records the earlier one is of a file the walker yielded
\* earlier, or of the same file and a lower line number; so a file's records
\* are contiguous and ascending, and the files' groups are in walker order.
C8_ResultOrder ==
    \A a \in Recs : \A b \in Recs :
        a < b =>
            /\ Yielded(results[a].path)
            /\ Yielded(results[b].path)
            /\ \/ YieldPos(results[a].path) < YieldPos(results[b].path)
               \/ /\ results[a].path = results[b].path
                  /\ results[a].line_no < results[b].line_no

\* Two files with two records each.
C8_Witness ==
    /\ Returned
    /\ Len(results) = 4
    /\ results[1].path = results[2].path
    /\ results[3].path = results[4].path
    /\ results[2].path # results[3].path

\* C9: detect_encoding always returns 'utf-8' or 'latin-1': 'utf-8' when the
\* file decodes as UTF-8, 'latin-1' when that raises a decode error and the
\* Latin-1 read succeeds, and 'utf-8' whenever the file cannot be opened or
\* read, at the first attempt as well as at the second.
C9_DetectEncodingTotal ==
    det.ret # "none" =>
        /\ det.ret \in {"utf-8", "latin-1"}
        /\ det.first = "ok" => det.ret = "utf-8"
        /\ (det.first = "decode_error" /\ det.second = "ok") => det.ret = "latin-1"
        /\ (det.first = "os_error" \/ det.second = "os_error") => det.ret = "utf-8"

\* C10: an empty pattern is not rejected; in substring mode the records of a
\* file that was read are exactly those of its non-empty lines, each with
\* the empty string as match.
C10_EmptyPattern ==
    (Returned /\ ~args.regex /\ args.pattern = <<>>) =>
        /\ exc = "none"
        /\ \A r \in Recs : results[r].match = <<>>
        /\ \A p \in Files : ReadOk(p) =>
              \A i \in 1..Len(LinesOf(p)) : HasRecord(p, i) <=> LinesOf(p)[i] # <<>>

\* C10 as amended: an empty pattern is not rejected; in substring mode every
\* line of a file that was read, the empty lines included, has exactly one
\* record, with the empty string as match.
C10_EmptyPatternAmended ==
    (Returned /\ ~args.regex /\ args.pattern = <<>>) =>
        /\ exc = "none"
        /\ \A r \in Recs : results[r].match = <<>>
        /\ \A p \in Files : ReadOk(p) =>
              /\ \A i \in 1..Len(LinesOf(p)) : HasRecord(p, i)
              /\ Cardinality({r \in Recs : results[r].path = p}) = Len(LinesOf(p))

\* An empty pattern, a file with an empty and a non-empty line, a record for
\* each.
C10_Witness ==
    /\ Returned
    /\ ~args.regex
    /\ args.pattern = <<>>
    /\ \E p \in Files :
          /\ ReadOk(p)
          /\ \E i \in 1..Len(LinesOf(p)) : LinesOf(p)[i] = <<>> /\ HasRecord(p, i)
          /\ \E i \in 1..Len(LinesOf(p)) : LinesOf(p)[i] # <<>> /\ HasRecord(p, i)

\* C11: a command that finds the modified flag set clears or replaces the
\* buffer only if the user answered No to the prompt or the buffer was
\* written to a file; after Cancel, or after Yes with a save that did not
\* succeed, the buffer text and the file path are as they were.
C11_UnsavedChangesProtected ==
    (last.op \in {"new_file", "open_file", "open_file_at", "save_file", "save_as"}
        /\ last.modified) =>
        /\ last.replaced => (last.answer = "no" \/ last.saved)
        /\ (last.answer = "cancel" \/ (last.answer = "yes" /\ ~last.saved)) =>
              (text = last.text /\ filepath = last.path)

====
